---------------------------- MODULE Spec2Model ----------------------------
(***************************************************************************)
(* Tiny Reflow Controller (src/TinyReflowController.cpp, VERSION 2).       *)
(*                                                                         *)
(* The firmware is setup() followed by loop() called for ever.  A state    *)
(* of the model is the firmware's globals and output pins between two      *)
(* calls of loop(); one step is one whole call of loop().  The clock       *)
(* millis() is read once per call: a pass through loop() is taken to be    *)
(* shorter than the clock's resolution of 1 ms.  The display, the serial   *)
(* log and the heart-beat LED (nextCheck, updateLcd, timerSeconds, the     *)
(* plot buffer) only read the state modelled here and are left out.        *)
(* Times stay far below 2^32 ms, so unsigned long arithmetic is plain      *)
(* integer arithmetic within the bounds explored.                          *)
(***************************************************************************)
EXTENDS Integers, Sequences, FiniteSets, TLC

(***************************************************************************)
(* Program constants                                                       *)
(***************************************************************************)
PROFILE_TYPE_ADDRESS == 0
TEMPERATURE_ROOM == 50
TEMPERATURE_SOAK_MIN == 150
TEMPERATURE_COOL_MIN == 100
SENSOR_SAMPLING_TIME == 1000
SOAK_TEMPERATURE_STEP == 5
TEMPERATURE_SOAK_MAX_LF == 200
TEMPERATURE_REFLOW_MAX_LF == 250
SOAK_MICRO_PERIOD_LF == 9000
TEMPERATURE_SOAK_MAX_PB == 180
TEMPERATURE_REFLOW_MAX_PB == 224
SOAK_MICRO_PERIOD_PB == 10000
TEMPERATURE_BAKE == 120
DEBOUNCE_PERIOD_MIN == 100
\* the margin below the reflow peak at which REFLOW hands over to COOL
REFLOW_MARGIN == 5
\* buzzerPeriod = millis() + 1000
BUZZER_PERIOD == 1000
\* windowSize = 2000, assigned once in setup()
windowSize == 2000
\* millis() when setup() returns: delay(1000) + delay(2000)
SETUP_MILLIS == 3000

\* PID gain sets (kp, ki, kd), in thousandths
PID_PREHEAT == <<100000, 25, 20000>>
PID_SOAK == <<300000, 50, 250000>>
PID_REFLOW == <<300000, 50, 350000>>
PID_BAKE == <<100000, 70, 20000>>

\* reflowState_t, reflowStatus_t, switch_t, debounceState_t, reflowProfile_t
ReflowStates ==
  {"IDLE", "PREHEAT", "SOAK", "REFLOW", "COOL", "COMPLETE", "TOO_HOT", "ERROR", "BAKE"}
ReflowStatuses == {"OFF", "ON"}
Switches == {"SWITCH_NONE", "SWITCH_1", "SWITCH_2"}
DebounceStates == {"DEBOUNCE_IDLE", "DEBOUNCE_CHECK", "DEBOUNCE_RELEASE"}
\* the profile enumerators by value: LEADFREE = 0, LEADED = 1, BAKE = 2
REFLOW_PROFILE_LEADFREE == 0
REFLOW_PROFILE_LEADED == 1
REFLOW_PROFILE_BAKE == 2

\* The fault bits tested by loop(): CJRANGE, TCRANGE, CJHIGH, CJLOW, TCHIGH,
\* TCLOW, OVUV, OPEN (the eight bits of the MAX31856 fault status register).
FaultMasks == <<128, 64, 32, 16, 8, 4, 2, 1>>

\* (fault & mask) != 0 for a one-bit mask
BitSet(f, mask) == (f \div mask) % 2 = 1

\* the condition of the two fault tests of loop()
AnyFault(f) == \E i \in 1..Len(FaultMasks) : BitSet(f, FaultMasks[i])

(***************************************************************************)
(* Values the environment supplies                                         *)
(***************************************************************************)
\* temperatures the thermocouple may report
Temps == {25, 100, 245}
\* fault status bytes the thermocouple may report
Faults == {0, 136}
\* contents of EEPROM address 0 at power-on
StoredValues == {0, 1, 2, 255}
\* levels of the two switch pins, <<switchStartStopPin, switchLfPbPin>>
PinLevels == {"LOW", "HIGH"} \X {"LOW", "HIGH"}
\* no switch pressed, START pressed
ReleasedPins == <<"HIGH", "HIGH">>
StartPins == <<"LOW", "HIGH">>

(***************************************************************************)
(* State: the globals of the firmware, the two output pins, EEPROM         *)
(* address 0 and the clock                                                 *)
(***************************************************************************)
VARIABLES
  now,                  \* the value millis() returned in the last call of loop()
  nextRead,
  input, fault,
  reflowState, reflowStatus, reflowProfile,
  eeprom,               \* EEPROM byte at PROFILE_TYPE_ADDRESS
  setpoint, output,
  tunings,              \* the gains held by reflowOvenPID
  soakTemperatureMax, reflowTemperatureMax, soakMicroPeriod,
  timerSoak, buzzerPeriod, windowStartTime,
  ssrPin, buzzerPin,
  debounceState, lastDebounceTime, switchStatus, switchValue, switchMask,
  loops,                \* calls of loop() made so far
  offLoops,             \* calls of loop() begun with the process off
  cyc,                  \* what the last call of loop() started from and read
  stateSince,           \* clock values of the last two calls that changed reflowState
  hold,                 \* the press being held: its first reading and its validated presses
  win,                  \* heater levels written during the current relay window
  chosen,               \* the profiles selected since power-on, in order
  past                  \* what has happened since power-on: TOO_HOT, a cold sample, a fault

progVars ==
  <<now, nextRead, input, fault, reflowState, reflowStatus, reflowProfile, eeprom,
    setpoint, output, tunings, soakTemperatureMax, reflowTemperatureMax,
    soakMicroPeriod, timerSoak, buzzerPeriod, windowStartTime, ssrPin, buzzerPin,
    debounceState, lastDebounceTime, switchStatus, switchValue, switchMask>>

obsVars == <<loops, offLoops, cyc, stateSince, hold, win, chosen, past>>

vars == <<progVars, obsVars>>

\* the program state as one record, threaded through the sections of loop()
Cur ==
  [nextRead |-> nextRead, input |-> input, fault |-> fault,
   reflowState |-> reflowState, reflowStatus |-> reflowStatus,
   reflowProfile |-> reflowProfile, eeprom |-> eeprom,
   setpoint |-> setpoint, output |-> output, tunings |-> tunings,
   soakTemperatureMax |-> soakTemperatureMax,
   reflowTemperatureMax |-> reflowTemperatureMax,
   soakMicroPeriod |-> soakMicroPeriod,
   timerSoak |-> timerSoak, buzzerPeriod |-> buzzerPeriod,
   windowStartTime |-> windowStartTime,
   ssrPin |-> ssrPin, buzzerPin |-> buzzerPin,
   debounceState |-> debounceState, lastDebounceTime |-> lastDebounceTime,
   switchStatus |-> switchStatus, switchValue |-> switchValue,
   switchMask |-> switchMask]

Commit(s, t) ==
  /\ now' = t
  /\ nextRead' = s.nextRead
  /\ input' = s.input
  /\ fault' = s.fault
  /\ reflowState' = s.reflowState
  /\ reflowStatus' = s.reflowStatus
  /\ reflowProfile' = s.reflowProfile
  /\ eeprom' = s.eeprom
  /\ setpoint' = s.setpoint
  /\ output' = s.output
  /\ tunings' = s.tunings
  /\ soakTemperatureMax' = s.soakTemperatureMax
  /\ reflowTemperatureMax' = s.reflowTemperatureMax
  /\ soakMicroPeriod' = s.soakMicroPeriod
  /\ timerSoak' = s.timerSoak
  /\ buzzerPeriod' = s.buzzerPeriod
  /\ windowStartTime' = s.windowStartTime
  /\ ssrPin' = s.ssrPin
  /\ buzzerPin' = s.buzzerPin
  /\ debounceState' = s.debounceState
  /\ lastDebounceTime' = s.lastDebounceTime
  /\ switchStatus' = s.switchStatus
  /\ switchValue' = s.switchValue
  /\ switchMask' = s.switchMask

(***************************************************************************)
(* setup()                                                                 *)
(***************************************************************************)
\* the stored byte is a valid reflowProfile_t
ValidProfile(value) == value = 0 \/ value = 1 \/ value = 2

\* reflowProfile after the profile load of setup()
LoadProfile(value) == IF ValidProfile(value) THEN value ELSE REFLOW_PROFILE_LEADFREE

\* EEPROM address 0 after the profile load of setup()
LoadEeprom(value) == IF ValidProfile(value) THEN value ELSE 0

\* setup() never writing the default
SetupWritesNothing(value) == << >>

\* the bytes setup() writes to PROFILE_TYPE_ADDRESS, in order
SetupWrites(value) == IF ValidProfile(value) THEN << >> ELSE <<0>>

\* The state when setup() returns.  Globals without an initialiser are zero:
\* reflowState IDLE, reflowStatus OFF, debounceState IDLE, switches NONE.
SetupDone(value) ==
  /\ now = SETUP_MILLIS
  /\ nextRead = SETUP_MILLIS
  /\ input = 0
  /\ fault = 0
  /\ reflowState = "IDLE"
  /\ reflowStatus = "OFF"
  /\ reflowProfile = LoadProfile(value)
  /\ eeprom = LoadEeprom(value)
  /\ setpoint = 0
  /\ output = 0
  /\ tunings = PID_PREHEAT
  /\ soakTemperatureMax = 0
  /\ reflowTemperatureMax = 0
  /\ soakMicroPeriod = 0
  /\ timerSoak = 0
  /\ buzzerPeriod = 0
  /\ windowStartTime = 0
  /\ ssrPin = "LOW"
  /\ buzzerPin = "LOW"
  /\ debounceState = "DEBOUNCE_IDLE"
  /\ lastDebounceTime = 0
  /\ switchStatus = "SWITCH_NONE"
  /\ switchValue = "SWITCH_NONE"
  /\ switchMask = "SWITCH_NONE"

(***************************************************************************)
(* loop(), section by section                                              *)
(***************************************************************************)
\* millis() > nextRead
SampleDue(t, s) == t > s.nextRead

\* ReadThermocouple without the line that turns the reflow process off
ReadThermocoupleStateOnly(s, t, temp, flt) ==
  IF SampleDue(t, s)
  THEN LET r == [s EXCEPT !.nextRead = s.nextRead + SENSOR_SAMPLING_TIME,
                          !.input = temp,
                          !.fault = flt]
       IN IF AnyFault(flt) THEN [r EXCEPT !.reflowState = "ERROR"] ELSE r
  ELSE s

\* Time to read thermocouple?  temp and flt are what the sensor returns.
ReadThermocouple(s, t, temp, flt) ==
  IF SampleDue(t, s)
  THEN LET r == [s EXCEPT !.nextRead = s.nextRead + SENSOR_SAMPLING_TIME,
                          !.input = temp,
                          !.fault = flt]
       IN IF AnyFault(flt)
          THEN [r EXCEPT !.reflowState = "ERROR", !.reflowStatus = "OFF"]
          ELSE r
  ELSE s

\* StartRun loading the lead-free constants for both solder profiles
StartRunLeadFreeOnly(s, t) ==
  LET w == [s EXCEPT !.windowStartTime = t]
  IN IF s.reflowProfile = REFLOW_PROFILE_BAKE
     THEN [w EXCEPT !.setpoint = TEMPERATURE_BAKE, !.reflowState = "BAKE"]
     ELSE [w EXCEPT !.setpoint = TEMPERATURE_SOAK_MIN,
                    !.reflowState = "PREHEAT",
                    !.soakTemperatureMax = TEMPERATURE_SOAK_MAX_LF,
                    !.reflowTemperatureMax = TEMPERATURE_REFLOW_MAX_LF,
                    !.soakMicroPeriod = SOAK_MICRO_PERIOD_LF]

\* case REFLOW_STATE_IDLE, the part that starts a run on switch 1
StartRun(s, t) ==
  LET w == [s EXCEPT !.windowStartTime = t]
  IN IF s.reflowProfile = REFLOW_PROFILE_BAKE
     THEN [w EXCEPT !.setpoint = TEMPERATURE_BAKE, !.reflowState = "BAKE"]
     ELSE LET p == [w EXCEPT !.setpoint = TEMPERATURE_SOAK_MIN,
                             !.reflowState = "PREHEAT"]
          IN IF s.reflowProfile = REFLOW_PROFILE_LEADFREE
             THEN [p EXCEPT !.soakTemperatureMax = TEMPERATURE_SOAK_MAX_LF,
                            !.reflowTemperatureMax = TEMPERATURE_REFLOW_MAX_LF,
                            !.soakMicroPeriod = SOAK_MICRO_PERIOD_LF]
             ELSE [p EXCEPT !.soakTemperatureMax = TEMPERATURE_SOAK_MAX_PB,
                            !.reflowTemperatureMax = TEMPERATURE_REFLOW_MAX_PB,
                            !.soakMicroPeriod = SOAK_MICRO_PERIOD_PB]

\* IdleCase looking at the switch before the temperature
IdleCaseSwitchFirst(s, t) ==
  IF s.switchStatus = "SWITCH_1" THEN StartRun(s, t)
  ELSE IF s.input >= TEMPERATURE_ROOM THEN [s EXCEPT !.reflowState = "TOO_HOT"]
  ELSE s

\* case REFLOW_STATE_IDLE
IdleCase(s, t) ==
  IF s.input >= TEMPERATURE_ROOM
  THEN [s EXCEPT !.reflowState = "TOO_HOT"]
  ELSE IF s.switchStatus = "SWITCH_1" THEN StartRun(s, t) ELSE s

\* PreheatCase going straight to REFLOW when the oven is already past the
\* soaking range
PreheatCaseSkipsSoak(s, t) ==
  LET r == [s EXCEPT !.reflowStatus = "ON"]
  IN IF r.input > s.soakTemperatureMax
     THEN [r EXCEPT !.tunings = PID_REFLOW,
                    !.setpoint = s.reflowTemperatureMax,
                    !.reflowState = "REFLOW"]
     ELSE IF r.input >= TEMPERATURE_SOAK_MIN
     THEN [r EXCEPT !.timerSoak = t + s.soakMicroPeriod,
                    !.tunings = PID_SOAK,
                    !.setpoint = TEMPERATURE_SOAK_MIN + SOAK_TEMPERATURE_STEP,
                    !.reflowState = "SOAK"]
     ELSE r

\* PreheatCase turning the process on only when it leaves for SOAK
PreheatCaseOnAtSoak(s, t) ==
  IF s.input >= TEMPERATURE_SOAK_MIN
  THEN [s EXCEPT !.reflowStatus = "ON",
                 !.timerSoak = t + s.soakMicroPeriod,
                 !.tunings = PID_SOAK,
                 !.setpoint = TEMPERATURE_SOAK_MIN + SOAK_TEMPERATURE_STEP,
                 !.reflowState = "SOAK"]
  ELSE s

\* case REFLOW_STATE_PREHEAT
PreheatCase(s, t) ==
  LET r == [s EXCEPT !.reflowStatus = "ON"]
  IN IF r.input >= TEMPERATURE_SOAK_MIN
     THEN [r EXCEPT !.timerSoak = t + s.soakMicroPeriod,
                    !.tunings = PID_SOAK,
                    !.setpoint = TEMPERATURE_SOAK_MIN + SOAK_TEMPERATURE_STEP,
                    !.reflowState = "SOAK"]
     ELSE r

\* SoakCase leaving for REFLOW when the setpoint reaches soakTemperatureMax
SoakCaseAtMax(s, t) ==
  IF t > s.timerSoak
  THEN LET r == [s EXCEPT !.timerSoak = t + s.soakMicroPeriod,
                          !.setpoint = s.setpoint + SOAK_TEMPERATURE_STEP]
       IN IF r.setpoint >= r.soakTemperatureMax
          THEN [r EXCEPT !.tunings = PID_REFLOW,
                         !.setpoint = r.reflowTemperatureMax,
                         !.reflowState = "REFLOW"]
          ELSE r
  ELSE s

\* SoakCase that also leaves for REFLOW once the oven is at soakTemperatureMax
SoakCaseByTemperature(s, t) ==
  LET r == IF t > s.timerSoak
           THEN [s EXCEPT !.timerSoak = t + s.soakMicroPeriod,
                          !.setpoint = s.setpoint + SOAK_TEMPERATURE_STEP]
           ELSE s
  IN IF r.setpoint > r.soakTemperatureMax \/ r.input >= r.soakTemperatureMax
     THEN [r EXCEPT !.tunings = PID_REFLOW,
                    !.setpoint = r.reflowTemperatureMax,
                    !.reflowState = "REFLOW"]
     ELSE r

\* case REFLOW_STATE_SOAK
SoakCase(s, t) ==
  IF t > s.timerSoak
  THEN LET r == [s EXCEPT !.timerSoak = t + s.soakMicroPeriod,
                          !.setpoint = s.setpoint + SOAK_TEMPERATURE_STEP]
       IN IF r.setpoint > r.soakTemperatureMax
          THEN [r EXCEPT !.tunings = PID_REFLOW,
                         !.setpoint = r.reflowTemperatureMax,
                         !.reflowState = "REFLOW"]
          ELSE r
  ELSE s

\* case REFLOW_STATE_REFLOW
ReflowCase(s) ==
  IF s.input >= s.reflowTemperatureMax - REFLOW_MARGIN
  THEN [s EXCEPT !.tunings = PID_REFLOW,
                 !.setpoint = TEMPERATURE_COOL_MIN,
                 !.reflowState = "COOL"]
  ELSE s

\* CoolCase leaving the process on when the run completes
CoolCaseStatusKept(s, t) ==
  IF s.input <= TEMPERATURE_COOL_MIN
  THEN [s EXCEPT !.buzzerPeriod = t + BUZZER_PERIOD,
                 !.buzzerPin = "HIGH",
                 !.reflowState = "COMPLETE"]
  ELSE s

\* case REFLOW_STATE_COOL
CoolCase(s, t) ==
  IF s.input <= TEMPERATURE_COOL_MIN
  THEN [s EXCEPT !.buzzerPeriod = t + BUZZER_PERIOD,
                 !.buzzerPin = "HIGH",
                 !.reflowStatus = "OFF",
                 !.reflowState = "COMPLETE"]
  ELSE s

\* the buzzer period taken as over when millis() reaches buzzerPeriod
BuzzerExpiredAtPeriod(t, s) == t >= s.buzzerPeriod

\* millis() > buzzerPeriod
BuzzerExpired(t, s) == t > s.buzzerPeriod

\* case REFLOW_STATE_COMPLETE
CompleteCase(s, t) ==
  IF BuzzerExpired(t, s)
  THEN [s EXCEPT !.buzzerPin = "LOW", !.reflowState = "IDLE"]
  ELSE s

\* TooHotCase that a validated press of switch 1 also leaves
TooHotCaseLeftByStart(s) ==
  IF s.input < TEMPERATURE_ROOM \/ s.switchStatus = "SWITCH_1"
  THEN [s EXCEPT !.reflowState = "IDLE"]
  ELSE s

\* case REFLOW_STATE_TOO_HOT
TooHotCase(s) ==
  IF s.input < TEMPERATURE_ROOM THEN [s EXCEPT !.reflowState = "IDLE"] ELSE s

\* ErrorCase that a validated press of switch 1 also leaves
ErrorCaseLeftByStart(s, flt) ==
  LET r == [s EXCEPT !.fault = flt]
  IN IF AnyFault(flt) /\ s.switchStatus # "SWITCH_1"
     THEN [r EXCEPT !.reflowState = "ERROR"]
     ELSE [r EXCEPT !.reflowState = "IDLE"]

\* case REFLOW_STATE_ERROR: flt is what this second readFault() returns
ErrorCase(s, flt) ==
  LET r == [s EXCEPT !.fault = flt]
  IN IF AnyFault(flt)
     THEN [r EXCEPT !.reflowState = "ERROR"]
     ELSE [r EXCEPT !.reflowState = "IDLE"]

\* BakeCase that completes the run when the bake temperature is reached
BakeCaseEndsAtSetpoint(s) ==
  IF s.input >= s.setpoint
  THEN [s EXCEPT !.reflowStatus = "OFF", !.reflowState = "COMPLETE"]
  ELSE [s EXCEPT !.reflowStatus = "ON", !.tunings = PID_BAKE]

\* case REFLOW_STATE_BAKE
BakeCase(s) == [s EXCEPT !.reflowStatus = "ON", !.tunings = PID_BAKE]

\* switch (reflowState)
StateMachine(s, t, flt) ==
  CASE s.reflowState = "IDLE" -> IdleCase(s, t)
    [] s.reflowState = "PREHEAT" -> PreheatCase(s, t)
    [] s.reflowState = "SOAK" -> SoakCase(s, t)
    [] s.reflowState = "REFLOW" -> ReflowCase(s)
    [] s.reflowState = "COOL" -> CoolCase(s, t)
    [] s.reflowState = "COMPLETE" -> CompleteCase(s, t)
    [] s.reflowState = "TOO_HOT" -> TooHotCase(s)
    [] s.reflowState = "ERROR" -> ErrorCase(s, flt)
    [] s.reflowState = "BAKE" -> BakeCase(s)

\* CancelRun without the line that reinitialises the state machine
CancelRunStatusOnly(s) ==
  IF s.reflowStatus = "ON" THEN [s EXCEPT !.reflowStatus = "OFF"] ELSE s

\* switch 1 is pressed while the reflow process is on going: cancel
CancelRun(s) ==
  IF s.reflowStatus = "ON"
  THEN [s EXCEPT !.reflowStatus = "OFF", !.reflowState = "IDLE"]
  ELSE s

\* NextProfile with the two solder profiles only
NextProfileTwoWay(p) ==
  IF p = REFLOW_PROFILE_LEADFREE THEN REFLOW_PROFILE_LEADED
  ELSE REFLOW_PROFILE_LEADFREE

\* the profile that follows p, with the value written to EEPROM
NextProfile(p) ==
  IF p = REFLOW_PROFILE_LEADFREE THEN REFLOW_PROFILE_LEADED
  ELSE IF p = REFLOW_PROFILE_LEADED THEN REFLOW_PROFILE_BAKE
  ELSE REFLOW_PROFILE_LEADFREE

\* SelectProfile without the test that the controller is idle
SelectProfileAnyState(s) ==
  [s EXCEPT !.reflowProfile = NextProfile(s.reflowProfile),
            !.eeprom = NextProfile(s.reflowProfile)]

\* switch 2 is pressed: only can switch reflow profile during idle
SelectProfile(s) ==
  IF s.reflowState = "IDLE"
  THEN [s EXCEPT !.reflowProfile = NextProfile(s.reflowProfile),
                 !.eeprom = NextProfile(s.reflowProfile)]
  ELSE s

\* SwitchHandling with the cancel tested only in the stage the cycle began in
SwitchHandlingSameStage(s) ==
  LET r == IF s.switchStatus = "SWITCH_1"
           THEN (IF s.reflowState = reflowState THEN CancelRun(s) ELSE s)
           ELSE IF s.switchStatus = "SWITCH_2" THEN SelectProfile(s)
           ELSE s
  IN [r EXCEPT !.switchStatus = "SWITCH_NONE"]

\* SwitchHandling without "switch status has been read"
SwitchHandlingStatusKept(s) ==
  IF s.switchStatus = "SWITCH_1" THEN CancelRun(s)
  ELSE IF s.switchStatus = "SWITCH_2" THEN SelectProfile(s)
  ELSE s

\* the two switch tests, then "switch status has been read"
SwitchHandling(s) ==
  LET r == IF s.switchStatus = "SWITCH_1" THEN CancelRun(s)
           ELSE IF s.switchStatus = "SWITCH_2" THEN SelectProfile(s)
           ELSE s
  IN [r EXCEPT !.switchStatus = "SWITCH_NONE"]

\* readSwitch(), VERSION 2: the two switch pins are active low
readSwitch(startStopPin, lfPbPin) ==
  IF startStopPin = "LOW" THEN "SWITCH_1"
  ELSE IF lfPbPin = "LOW" THEN "SWITCH_2"
  ELSE "SWITCH_NONE"

\* the debounce time taken as elapsed at DEBOUNCE_PERIOD_MIN
DebounceDoneAtPeriod(t, s) == t - s.lastDebounceTime >= DEBOUNCE_PERIOD_MIN

\* (millis() - lastDebounceTime) > DEBOUNCE_PERIOD_MIN
DebounceDone(t, s) == t - s.lastDebounceTime > DEBOUNCE_PERIOD_MIN

\* switch (debounceState): raw is what readSwitch() returns
Debounce(s, t, raw) ==
  LET r == [s EXCEPT !.switchValue = raw]
  IN CASE s.debounceState = "DEBOUNCE_IDLE" ->
            IF raw # "SWITCH_NONE"
            THEN [r EXCEPT !.switchStatus = "SWITCH_NONE",
                           !.switchMask = raw,
                           !.lastDebounceTime = t,
                           !.debounceState = "DEBOUNCE_CHECK"]
            ELSE [r EXCEPT !.switchStatus = "SWITCH_NONE"]
       [] s.debounceState = "DEBOUNCE_CHECK" ->
            IF raw = s.switchMask
            THEN IF DebounceDone(t, s)
                 THEN [r EXCEPT !.switchStatus = s.switchMask,
                                !.debounceState = "DEBOUNCE_RELEASE"]
                 ELSE r
            ELSE [r EXCEPT !.debounceState = "DEBOUNCE_IDLE"]
       [] s.debounceState = "DEBOUNCE_RELEASE" ->
            IF raw = "SWITCH_NONE"
            THEN [r EXCEPT !.debounceState = "DEBOUNCE_IDLE"]
            ELSE r

\* ShiftWindow starting the new window at the current time
ShiftWindowToNow(s, t) ==
  IF t - s.windowStartTime > windowSize
  THEN [s EXCEPT !.windowStartTime = t]
  ELSE s

\* (now - windowStartTime) > windowSize: time to shift the relay window
ShiftWindow(s, t) ==
  IF t - s.windowStartTime > windowSize
  THEN [s EXCEPT !.windowStartTime = s.windowStartTime + windowSize]
  ELSE s

\* SsrLevel with the heater on up to and including the control value
SsrLevelInclusive(s, t) == IF s.output >= t - s.windowStartTime THEN "HIGH" ELSE "LOW"

\* the level written to ssrPin while the process is on
SsrLevel(s, t) == IF s.output > t - s.windowStartTime THEN "HIGH" ELSE "LOW"

\* the relay pin left as it is while the process is off
SsrOffKeepsLevel == ssrPin

\* the level written to ssrPin while the process is off
SsrOff == "LOW"

\* PID computation and SSR control: out is what Compute() leaves in output
PidSsr(s, t, out) ==
  IF s.reflowStatus = "ON"
  THEN LET c == ShiftWindow([s EXCEPT !.output = out], t)
       IN [c EXCEPT !.ssrPin = SsrLevel(c, t)]
  ELSE [s EXCEPT !.ssrPin = SsrOff]

(***************************************************************************)
(* Observers: what a call of loop() started from, read and wrote.  They    *)
(* record the run; no section of loop() reads them.                        *)
(***************************************************************************)
NoCycle ==
  [startState |-> "IDLE", startStatus |-> "OFF", startProfile |-> 0,
   startSsr |-> "LOW", press |-> "SWITCH_NONE", sampled |-> FALSE,
   sampleFault |-> FALSE, seqState |-> "IDLE"]

\* The call of loop() at clock value t: the state it starts from, the validated
\* press it consumes, whether it samples the thermocouple and reads a fault
\* with the sample, and the sequencer's state (s2) after switch (reflowState).
CycleOf(t, flt, s2) ==
  [startState |-> reflowState, startStatus |-> reflowStatus,
   startProfile |-> reflowProfile, startSsr |-> ssrPin,
   press |-> switchStatus,
   sampled |-> SampleDue(t, Cur),
   sampleFault |-> SampleDue(t, Cur) /\ AnyFault(flt),
   seqState |-> s2.reflowState]

NoHold == [start |-> -1, emitted |-> 0, press |-> "SWITCH_NONE"]

\* The press being held, after a call of loop().  A hold starts with a reading
\* of a switch that follows a reading of SWITCH_NONE and lasts while the same
\* switch is read; emitted counts the calls of loop() of the hold that leave a
\* validated press in switchStatus, press is the last of them.
HoldNext ==
  IF switchValue' = "SWITCH_NONE" THEN NoHold
  ELSE IF switchValue = "SWITCH_NONE"
       THEN [start |-> now',
             emitted |-> IF switchStatus' # "SWITCH_NONE" THEN 1 ELSE 0,
             press |-> switchStatus']
  ELSE IF switchValue = switchValue' /\ hold.start # -1
       THEN [hold EXCEPT
               !.emitted = IF switchStatus' # "SWITCH_NONE" THEN @ + 1 ELSE @,
               !.press = IF switchStatus' # "SWITCH_NONE" THEN switchStatus' ELSE @]
  ELSE NoHold

NoWindow == [high |-> 0, low |-> 0, lastHigh |-> 0, lastLow |-> 0, done |-> 0]

\* The relay window, after a call of loop().  high and low count the calls of
\* loop() of the current window that wrote HIGH and LOW to ssrPin; when the
\* window is shifted they are kept as lastHigh and lastLow and the count
\* starts again.
WindowNext ==
  IF reflowStatus' = "OFF" THEN NoWindow
  ELSE LET shifted == reflowStatus = "ON" /\ windowStartTime' # windowStartTime
           base == IF shifted
                   THEN [high |-> 0, low |-> 0, lastHigh |-> win.high,
                         lastLow |-> win.low, done |-> win.done + 1]
                   ELSE win
       IN IF ssrPin' = "HIGH"
          THEN [base EXCEPT !.high = @ + 1]
          ELSE [base EXCEPT !.low = @ + 1]

\* the profiles selected so far, after a call of loop()
ChosenNext ==
  IF reflowProfile' # reflowProfile THEN Append(chosen, reflowProfile') ELSE chosen

NoPast == [tooHot |-> FALSE, cold |-> FALSE, faulted |-> FALSE]

\* What has happened since power-on, after a call of loop(): a call has ended
\* in TOO_HOT, a sample below TEMPERATURE_ROOM has been read, a fault has been
\* read with a sample.
PastNext ==
  [tooHot |-> past.tooHot \/ reflowState' = "TOO_HOT",
   cold |-> past.cold \/ (cyc'.sampled /\ input' < TEMPERATURE_ROOM),
   faulted |-> past.faulted \/ cyc'.sampleFault]

\* no call of loop() has changed reflowState yet
NoChange == [entered |-> SETUP_MILLIS, previous |-> SETUP_MILLIS]

\* The clock value of the call of loop() that last changed reflowState
\* (entered) and of the one that changed it before (previous), after a call.
SinceNext ==
  IF reflowState' # reflowState
  THEN [entered |-> now', previous |-> stateSince.entered]
  ELSE stateSince

(***************************************************************************)
(* The call of loop() as an action                                         *)
(***************************************************************************)
\* loop() at clock value t.  The readings are drawn from the given sets where
\* the code reads them: the sensor when a sample is due, the fault status
\* once more in case REFLOW_STATE_ERROR, the switch pins in the debounce
\* machine, the output of Compute() while the process is on.
Loop(t, temps, faults, pins, outs) ==
  \E temp \in IF SampleDue(t, Cur) THEN temps ELSE {input} :
  \E flt \in IF SampleDue(t, Cur) THEN faults ELSE {fault} :
    LET s1 == ReadThermocouple(Cur, t, temp, flt)
    IN \E flt2 \in IF s1.reflowState = "ERROR" THEN faults ELSE {fault} :
       \E pin \in pins :
         LET s2 == StateMachine(s1, t, flt2)
             s4 == Debounce(SwitchHandling(s2), t, readSwitch(pin[1], pin[2]))
         IN \E out \in IF s4.reflowStatus = "ON" THEN outs ELSE {output} :
              /\ Commit(PidSsr(s4, t, out), t)
              /\ loops' = loops + 1
              /\ cyc' = CycleOf(t, flt, s2)

\* the state when setup() returns, for every stored profile byte
PowerOn ==
  /\ \E value \in StoredValues : SetupDone(value)
  /\ loops = 0
  /\ offLoops = 0
  /\ cyc = NoCycle
  /\ stateSince = NoChange
  /\ hold = NoHold
  /\ win = NoWindow
  /\ chosen = <<reflowProfile>>
  /\ past = NoPast

\* a switch, once pressed, stays down until the debounce machine has taken
\* the press: the pin levels among pins that keep the switch under check
Steady(pins) ==
  IF debounceState = "DEBOUNCE_CHECK"
  THEN {p \in pins : readSwitch(p[1], p[2]) = switchMask}
  ELSE pins

(***************************************************************************)
(* Spec: reflow and bake runs.  loop() is called every RunDelta ms, so     *)
(* every call samples the sensor and finds the soak and buzzer timers      *)
(* expired.  The operator uses START only and keeps it down until the      *)
(* press is taken.  Temperatures and faults are arbitrary.  A behaviour    *)
(* has at most MaxLoops calls of loop(), at most MaxOffLoops of them       *)
(* begun with the process off.                                             *)
(***************************************************************************)
MaxLoops == 18
MaxOffLoops == 5
RunDelta == 10001
\* control outputs Compute() may leave, within SetOutputLimits(0, windowSize)
Outputs == {windowSize}

Init == PowerOn

Next ==
  /\ loops < MaxLoops
  /\ reflowStatus = "OFF" => offLoops < MaxOffLoops
  /\ Loop(now + RunDelta, Temps, Faults, Steady({ReleasedPins, StartPins}), Outputs)
  /\ offLoops' = IF reflowStatus = "OFF" THEN offLoops + 1 ELSE offLoops
  /\ UNCHANGED <<stateSince, hold, win, chosen, past>>

Spec == Init /\ [][Next]_vars

(***************************************************************************)
(* Claims checked under Spec                                               *)
(***************************************************************************)
\* the last call of loop() sampled the sensor and read a fault with the sample
FaultSampled == cyc.sampled /\ cyc.sampleFault

\* C2 as stated: a cycle that samples the temperature and reads a fault mask
\* with a fault bit set ends, from every state, with reflowState ERROR,
\* reflowStatus OFF and the heater output LOW.
C2_FaultForcesErrorAsStated ==
  FaultSampled =>
    reflowState = "ERROR" /\ reflowStatus = "OFF" /\ ssrPin = "LOW"

\* C2 amended: such a cycle ends, from every state, with reflowStatus OFF and
\* the heater output LOW; reflowState is ERROR if the fault status read again
\* by case ERROR in the same cycle still shows a fault, and IDLE if it is clear.
C2_FaultForcesError ==
  FaultSampled =>
    /\ reflowStatus = "OFF"
    /\ ssrPin = "LOW"
    /\ reflowState = IF AnyFault(fault) THEN "ERROR" ELSE "IDLE"

\* a running COOL stage is stopped by a sampled fault
C2_Witness ==
  /\ FaultSampled
  /\ cyc.startState = "COOL"
  /\ cyc.startStatus = "ON"
  /\ reflowState = "ERROR"
  /\ reflowStatus = "OFF"

\* C4: a cycle that starts in REFLOW with reflowStatus ON and a validated
\* START press, and samples no fault, ends with reflowStatus OFF, reflowState
\* IDLE and the heater LOW, also when REFLOW -> COOL fired in that cycle.
C4_CancelInReflow ==
  (/\ cyc.startState = "REFLOW"
   /\ cyc.startStatus = "ON"
   /\ cyc.press = "SWITCH_1"
   /\ ~cyc.sampleFault)
  => reflowStatus = "OFF" /\ reflowState = "IDLE" /\ ssrPin = "LOW"

\* the cancel overrides a REFLOW -> COOL transition of the same cycle
C4_Witness ==
  /\ cyc.startState = "REFLOW"
  /\ cyc.startStatus = "ON"
  /\ cyc.press = "SWITCH_1"
  /\ ~cyc.sampleFault
  /\ input >= reflowTemperatureMax - 5
  /\ cyc.seqState = "COOL"
  /\ reflowState = "IDLE"

\* C5 as stated: every cycle that starts with reflowStatus ON and a validated
\* START press ends with reflowStatus OFF and reflowState IDLE.
C5_CancelFromAnyOnStateAsStated ==
  (cyc.startStatus = "ON" /\ cyc.press = "SWITCH_1")
  => reflowStatus = "OFF" /\ reflowState = "IDLE"

\* C5 amended: every such cycle ends with reflowStatus OFF.  It ends in IDLE,
\* overriding PREHEAT -> SOAK, SOAK -> REFLOW and REFLOW -> COOL, unless a
\* fault is sampled in it (ERROR, or IDLE when the second reading is clear) or
\* COOL -> COMPLETE fires in it (COMPLETE: the process is already off when the
\* press is looked at).
C5_CancelFromAnyOnState ==
  (cyc.startStatus = "ON" /\ cyc.press = "SWITCH_1")
  => /\ reflowStatus = "OFF"
     /\ cyc.startState \in {"PREHEAT", "SOAK", "REFLOW", "COOL", "BAKE"}
     /\ reflowState =
          IF cyc.sampleFault THEN (IF AnyFault(fault) THEN "ERROR" ELSE "IDLE")
          ELSE IF cyc.startState = "COOL" /\ cyc.seqState = "COMPLETE" THEN "COMPLETE"
          ELSE "IDLE"

\* the cancel overrides a SOAK -> REFLOW transition of the same cycle
C5_Witness ==
  /\ cyc.startStatus = "ON"
  /\ cyc.press = "SWITCH_1"
  /\ cyc.startState = "SOAK"
  /\ cyc.seqState = "REFLOW"
  /\ reflowState = "IDLE"
  /\ reflowStatus = "OFF"

\* the setpoints of a lead-free run, by stage
C8_Setpoints ==
  /\ reflowState = "PREHEAT" => setpoint = 150
  /\ reflowState = "SOAK" => setpoint \in {155 + 5 * k : k \in 0..9}
  /\ reflowState = "REFLOW" => setpoint = 250
  /\ reflowState \in {"COOL", "COMPLETE"} => setpoint = 100

\* a call of loop() of a lead-free run that samples no fault and consumes no
\* START press while the run is under way
C8_Undisturbed ==
  /\ reflowProfile = REFLOW_PROFILE_LEADFREE
  /\ ~cyc'.sampleFault
  /\ reflowState # "ERROR"
  /\ ~(switchStatus = "SWITCH_1" /\ reflowState \in {"PREHEAT", "SOAK", "REFLOW", "COOL"})

\* the stage and setpoint such a call leaves, as a function of the temperature
\* it works with (input') and of the clock (now')
C8_Stage ==
  /\ reflowState = "IDLE" =>
       /\ reflowState' \in {"IDLE", "TOO_HOT", "PREHEAT"}
       /\ reflowState' = "PREHEAT" <=> (input' < 50 /\ switchStatus = "SWITCH_1")
       /\ reflowState' = "PREHEAT" => setpoint' = 150
  /\ reflowState = "PREHEAT" =>
       IF input' >= 150
       THEN reflowState' = "SOAK" /\ setpoint' = 155
       ELSE reflowState' = "PREHEAT" /\ setpoint' = 150
  /\ reflowState = "SOAK" =>
       IF now' > timerSoak
       THEN IF setpoint + 5 > 200
            THEN reflowState' = "REFLOW" /\ setpoint' = 250
            ELSE reflowState' = "SOAK" /\ setpoint' = setpoint + 5
       ELSE reflowState' = "SOAK" /\ setpoint' = setpoint
  /\ reflowState = "REFLOW" =>
       IF input' >= 245
       THEN reflowState' = "COOL" /\ setpoint' = 100
       ELSE reflowState' = "REFLOW" /\ setpoint' = 250
  /\ reflowState = "COOL" =>
       /\ reflowState' = IF input' <= 100 THEN "COMPLETE" ELSE "COOL"
       /\ setpoint' = 100
  /\ reflowState = "COMPLETE" =>
       /\ reflowState' \in {"COMPLETE", "IDLE"}
       /\ setpoint' = 100

\* C8: with Profile LEAD_FREE, no fault and no cancel, a validated START press
\* in IDLE below 50 degrees leads to PREHEAT with Setpoint 150; PREHEAT goes to
\* SOAK with Setpoint 155 at 150 degrees; in SOAK the Setpoint rises by 5 at
\* each expiry of the soak sub-timer up to 200, and the expiry that would take
\* it above 200 sets it to 250 and enters REFLOW; REFLOW goes to COOL with
\* Setpoint 100 at 245 degrees; COOL goes to COMPLETE at 100 degrees or below;
\* COMPLETE goes to IDLE.  No other stage order and no other Setpoint occurs.
C8_LeadFreeRun ==
  [][C8_Undisturbed => (C8_Stage /\ C8_Setpoints')]_vars

\* a lead-free run has gone through every stage and is back in IDLE
C8_Witness ==
  /\ reflowProfile = REFLOW_PROFILE_LEADFREE
  /\ cyc.startState = "COMPLETE"
  /\ reflowState = "IDLE"
  /\ setpoint = 100
  /\ reflowTemperatureMax = 250
  /\ soakTemperatureMax = 200

(***************************************************************************)
(* SpecIdle: the controller with the process off.  loop() is called every  *)
(* RunDelta ms; both switches, temperatures and faults are arbitrary.  A   *)
(* behaviour has at most MaxIdleLoops calls of loop() and ends when a run  *)
(* is started.                                                             *)
(***************************************************************************)
MaxIdleLoops == 9
\* sensor readings on either side of TEMPERATURE_ROOM
IdleTemps == {25, 100}

NextIdle ==
  /\ loops < MaxIdleLoops
  /\ reflowState \in {"IDLE", "TOO_HOT", "ERROR"}
  /\ Loop(now + RunDelta, IdleTemps, Faults, PinLevels, Outputs)
  /\ chosen' = ChosenNext
  /\ UNCHANGED <<offLoops, stateSince, hold, win, past>>

SpecIdle == Init /\ [][NextIdle]_vars

\* C3: a cycle that starts in ERROR ends in IDLE if and only if the fault mask
\* read in that cycle by case ERROR has none of the eight fault bits set, and
\* ends in ERROR otherwise, whatever the validated press, the temperature and
\* the clock; reflowStatus is OFF whenever the state is ERROR.
C3_ErrorSingleExit ==
  /\ cyc.startState = "ERROR" =>
       /\ reflowState \in {"IDLE", "ERROR"}
       /\ reflowState = "IDLE" <=> ~AnyFault(fault)
  /\ reflowState = "ERROR" => reflowStatus = "OFF"

\* a validated press consumed in ERROR, with the fault standing, leaves ERROR
C3_Witness ==
  /\ cyc.startState = "ERROR"
  /\ cyc.press # "SWITCH_NONE"
  /\ input < TEMPERATURE_ROOM
  /\ reflowState = "ERROR"
  /\ reflowStatus = "OFF"

\* the profile order LEAD_FREE -> LEADED -> BAKE -> LEAD_FREE
C10_Follows(p) ==
  CASE p = REFLOW_PROFILE_LEADFREE -> REFLOW_PROFILE_LEADED
    [] p = REFLOW_PROFILE_LEADED -> REFLOW_PROFILE_BAKE
    [] p = REFLOW_PROFILE_BAKE -> REFLOW_PROFILE_LEADFREE

\* three consecutive selections return Profile to the value it started from
C10_ThreeReturn ==
  \A k \in 1..Len(chosen) : k + 3 <= Len(chosen) => chosen[k + 3] = chosen[k]

\* C10 as stated: a cycle that starts in IDLE and consumes a validated SELECT
\* press ends with Profile one step further along LEAD_FREE -> LEADED -> BAKE
\* -> LEAD_FREE and with EEPROM address 0 equal to the new Profile.
C10_ProfileCyclingAsStated ==
  (cyc.startState = "IDLE" /\ cyc.press = "SWITCH_2")
  => reflowProfile = C10_Follows(cyc.startProfile) /\ eeprom = reflowProfile

\* C10 amended: a validated SELECT press consumed in a cycle whose sequencer
\* evaluation leaves reflowState IDLE advances Profile one step along
\* LEAD_FREE -> LEADED -> BAKE -> LEAD_FREE; a cycle that starts in IDLE and
\* leaves IDLE in the evaluation (TOO_HOT at 50 degrees or more, ERROR on a
\* fault) keeps Profile.  EEPROM address 0 equals Profile at the end of every
\* cycle, and three consecutive selections return Profile to its start.
C10_ProfileCycling ==
  /\ cyc.press = "SWITCH_2" =>
       reflowProfile = IF cyc.seqState = "IDLE"
                       THEN C10_Follows(cyc.startProfile)
                       ELSE cyc.startProfile
  /\ eeprom = reflowProfile
  /\ C10_ThreeReturn

\* the third selection in a row, made in IDLE, has restored the first profile
C10_Witness ==
  /\ cyc.startState = "IDLE"
  /\ cyc.seqState = "IDLE"
  /\ cyc.press = "SWITCH_2"
  /\ Len(chosen) = 4
  /\ reflowProfile = chosen[1]
  /\ eeprom = chosen[1]

(***************************************************************************)
(* SpecFine: the switches and the relay at a fine time scale.  Successive  *)
(* calls of loop() are 1 ms or 100 ms apart; the switches (one at a time), *)
(* the control output and the first sensor reading are arbitrary.  A       *)
(* behaviour has at most MaxFineLoops calls of loop().                     *)
(***************************************************************************)
MaxFineLoops == 8
FineDeltas == {1, 100}
SelectPins == <<"HIGH", "LOW">>
\* control outputs at the two ends of SetOutputLimits(0, windowSize)
FineOutputs == {0, windowSize}

NextFine ==
  /\ loops < MaxFineLoops
  /\ \E d \in FineDeltas :
       Loop(now + d, IdleTemps, Faults, {ReleasedPins, StartPins, SelectPins}, FineOutputs)
  /\ hold' = HoldNext
  /\ UNCHANGED <<offLoops, stateSince, win, chosen, past>>

SpecFine == Init /\ [][NextFine]_vars

\* C1: the heater output is LOW when setup() returns, and is LOW at the end of
\* every call of loop() that leaves reflowStatus OFF, whatever the state, the
\* control output, the window position and the switches.
C1_HeaterOffInterlock == reflowStatus = "OFF" => ssrPin = "LOW"

\* a call of loop() that found the heater HIGH and ends with the process off
C1_Witness ==
  /\ cyc.startStatus = "ON"
  /\ cyc.startSsr = "HIGH"
  /\ output = windowSize
  /\ reflowStatus = "OFF"
  /\ ssrPin = "LOW"

\* the time the switch has been held, from its first reading to the last one
C6_Held == now - hold.start

\* C6 as stated: a switch held for less than 100 ms has produced no validated
\* press; a switch held for 100 ms or more has produced exactly one, equal to
\* the held input.
C6_DebounceAsStated ==
  hold.start # -1 =>
    IF C6_Held < 100
    THEN hold.emitted = 0
    ELSE hold.emitted = 1 /\ hold.press = switchValue

\* C6 amended: a switch read continuously since a reading of SWITCH_NONE has
\* produced no validated press while the time from its first reading is 100 ms
\* or less; the first call of loop() that reads it more than 100 ms after the
\* first reading produces one validated press, equal to the held input, and
\* no later call produces another for as long as the switch is read.
C6_Debounce ==
  hold.start # -1 =>
    /\ C6_Held <= 100 => hold.emitted = 0 /\ switchStatus = "SWITCH_NONE"
    /\ C6_Held > 100 => hold.emitted = 1 /\ hold.press = switchValue
    /\ switchStatus # "SWITCH_NONE" =>
         switchStatus = switchValue /\ debounceState = "DEBOUNCE_RELEASE"

\* a switch still held 200 ms after its one validated press was consumed
C6_Witness ==
  /\ hold.start # -1
  /\ C6_Held > 300
  /\ hold.emitted = 1
  /\ hold.press = switchValue
  /\ switchStatus = "SWITCH_NONE"
  /\ debounceState = "DEBOUNCE_RELEASE"

(***************************************************************************)
(* SpecDuty: the relay window under a constant control output.  START is   *)
(* held until the run is started, with loop() called every windowSize ms;  *)
(* once the process is on, loop() is called every millisecond and          *)
(* Compute() keeps leaving the value it left first, one of DutyValues.     *)
(* The oven stays cold and the sensor reports no fault.  A behaviour has   *)
(* at most MaxDutyLoops calls of loop().                                   *)
(***************************************************************************)
MaxDutyLoops == 4010
DutyValues == {0, 1, 2, 1000, 1999, windowSize}
ColdTemps == {25}
NoFaults == {0}

NextDuty ==
  /\ loops < MaxDutyLoops
  /\ Loop(now + (IF reflowStatus = "ON" THEN 1 ELSE windowSize),
          ColdTemps, NoFaults,
          IF reflowState = "IDLE" THEN {StartPins} ELSE {ReleasedPins},
          IF reflowStatus = "ON" THEN {output} ELSE DutyValues)
  /\ win' = WindowNext
  /\ UNCHANGED <<offLoops, stateSince, hold, chosen, past>>

SpecDuty == Init /\ [][NextDuty]_vars

\* two relay windows have been completed, the last of them a whole one
C7_WholeWindow == reflowStatus = "ON" /\ win.done >= 2

\* C7 as stated: with loop() evaluated every millisecond and the control
\* output constant at v, the heater is HIGH for exactly v ms and LOW for
\* exactly windowSize - v ms of every window; v = 0 is never HIGH and
\* v = windowSize is never LOW.
C7_DutyAsStated ==
  /\ C7_WholeWindow => win.lastHigh = output /\ win.lastLow = 2000 - output
  /\ (reflowStatus = "ON" /\ output = 0) => win.high = 0
  /\ (reflowStatus = "ON" /\ output = 2000 /\ win.done >= 1) => win.low = 0

\* the calls of loop() of a whole window that write HIGH, for control output v
C7_HighCalls(v) == IF v = 0 THEN 0 ELSE v - 1

\* C7 amended: with loop() evaluated every millisecond and the control output
\* constant at v, a window has 2000 evaluations, at 1 to 2000 ms from the
\* window start; the heater is HIGH for v - 1 of them (none for v = 0) and LOW
\* for the others.  v = 0 and v = 1 give a heater that is never HIGH;
\* v = windowSize gives a heater that is LOW for 1 ms in each window.
C7_Duty ==
  /\ C7_WholeWindow =>
       /\ win.lastHigh = C7_HighCalls(output)
       /\ win.lastLow = 2000 - C7_HighCalls(output)
  /\ (reflowStatus = "ON" /\ output \in {0, 1}) => win.high = 0
  /\ (reflowStatus = "ON" /\ ssrPin = "HIGH") =>
       now - windowStartTime \in 1..(output - 1)
  /\ (reflowStatus = "ON" /\ ssrPin = "LOW" /\ win.done >= 1) =>
       now - windowStartTime \in output..2000 \ {0}

\* a whole window at half power: HIGH for 999 evaluations, LOW for 1001
C7_Witness ==
  /\ C7_WholeWindow
  /\ output = 1000
  /\ win.lastHigh = 999
  /\ win.lastLow = 1001

(***************************************************************************)
(* SpecComplete: a run taken to its end.  START is held until the run is   *)
(* started, the oven follows the stage the controller is in, the sensor    *)
(* reports no fault.  loop() is called every RunDelta ms, and every        *)
(* millisecond while the state is COMPLETE.  A behaviour has at most       *)
(* MaxCompleteLoops calls of loop().                                       *)
(***************************************************************************)
MaxCompleteLoops == 1030

\* the temperatures the sensor may report in each stage
OvenTemps ==
  CASE reflowState = "PREHEAT" -> {150}
    [] reflowState = "SOAK" -> {200}
    [] reflowState = "REFLOW" -> {245}
    [] reflowState = "COOL" -> {100}
    [] reflowState = "COMPLETE" -> {25, 100}
    [] OTHER -> {25}

NextComplete ==
  /\ loops < MaxCompleteLoops
  /\ Loop(now + (IF reflowState = "COMPLETE" THEN 1 ELSE RunDelta),
          OvenTemps, NoFaults,
          IF reflowState = "IDLE" THEN {StartPins} ELSE {ReleasedPins},
          Outputs)
  /\ stateSince' = SinceNext
  /\ UNCHANGED <<offLoops, hold, win, chosen, past>>

SpecComplete == Init /\ [][NextComplete]_vars

\* the last call of loop() took the sequencer from COMPLETE to IDLE
C9_Left == cyc.startState = "COMPLETE" /\ reflowState = "IDLE"

\* C9 as stated: with loop() evaluated every millisecond and no fault, the
\* state is COMPLETE, with the buzzer on, at every evaluation made less than
\* 1000 ms after the one that entered COMPLETE, and the evaluation made 1000 ms
\* after it sets the state to IDLE and turns the buzzer off.
C9_CompletionTimingAsStated ==
  /\ reflowState = "COMPLETE" =>
       now - stateSince.entered < 1000 /\ buzzerPin = "HIGH"
  /\ C9_Left =>
       stateSince.entered - stateSince.previous = 1000 /\ buzzerPin = "LOW"

\* C9 amended: the state is COMPLETE, with the buzzer on, at every evaluation
\* made up to and including 1000 ms after the one that entered COMPLETE; the
\* evaluation made 1001 ms after it sets the state to IDLE and turns the
\* buzzer off.
C9_CompletionTiming ==
  /\ reflowState = "COMPLETE" =>
       now - stateSince.entered <= 1000 /\ buzzerPin = "HIGH"
  /\ C9_Left =>
       /\ now = stateSince.entered
       /\ stateSince.entered - stateSince.previous = 1001
       /\ buzzerPin = "LOW"

\* the sequencer is back in IDLE, 1001 ms after it entered COMPLETE
C9_Witness ==
  /\ C9_Left
  /\ stateSince.entered - stateSince.previous = 1001
  /\ buzzerPin = "LOW"
  /\ reflowStatus = "OFF"

(***************************************************************************)
(* SpecSelect: SELECT pressed outside IDLE.  loop() is called every        *)
(* RunDelta ms.  In IDLE the operator holds START; in every other state    *)
(* the operator presses and releases SELECT at will.  Temperatures and     *)
(* faults are arbitrary.  A behaviour has at most MaxSelectLoops calls of  *)
(* loop().                                                                 *)
(***************************************************************************)
MaxSelectLoops == 16

\* the temperatures the sensor may report in each stage: the oven follows
\* the run, reaching the end of PREHEAT and of REFLOW sooner or later, and
\* may be hot or cold when the controller is idle
SelectTemps ==
  IF reflowState = "IDLE" THEN IdleTemps
  ELSE IF reflowState = "TOO_HOT" THEN ColdTemps
  ELSE IF reflowState \in {"PREHEAT", "REFLOW"} THEN {100, 245}
  ELSE OvenTemps

\* the switch pins: a switch under check is kept down; otherwise START is
\* pressed in IDLE, and in every other state SELECT is pressed again as soon
\* as it has been released
SelectSwitches ==
  IF debounceState = "DEBOUNCE_CHECK"
  THEN Steady({ReleasedPins, StartPins, SelectPins})
  ELSE IF reflowState = "IDLE" THEN {StartPins}
  ELSE IF debounceState = "DEBOUNCE_RELEASE" THEN {ReleasedPins}
  ELSE {SelectPins}

NextSelect ==
  /\ loops < MaxSelectLoops
  /\ Loop(now + RunDelta, SelectTemps, Faults, SelectSwitches, Outputs)
  /\ UNCHANGED <<offLoops, stateSince, hold, win, chosen, past>>

SpecSelect == Init /\ [][NextSelect]_vars

\* the last call of loop() consumed a validated SELECT press and did not
\* start in IDLE
C11_SelectOutsideIdle == cyc.press = "SWITCH_2" /\ cyc.startState # "IDLE"

\* C11 as stated: a validated SELECT press consumed in a cycle that starts in
\* a state other than IDLE leaves Profile and EEPROM address 0 unchanged.
C11_SelectNoOpAsStated ==
  C11_SelectOutsideIdle =>
    reflowProfile = cyc.startProfile /\ eeprom = cyc.startProfile

\* C11 amended: a validated SELECT press consumed in a cycle whose sequencer
\* evaluation leaves reflowState other than IDLE leaves Profile and EEPROM
\* address 0 unchanged; that is so in every cycle that starts in PREHEAT,
\* SOAK, REFLOW, COOL or BAKE and samples no fault.  A cycle that starts
\* outside IDLE and whose evaluation ends in IDLE (COMPLETE with the buzzer
\* period over, TOO_HOT below 50 degrees, ERROR or a sampled fault with the
\* second fault reading clear) advances Profile and stores it.
C11_SelectNoOp ==
  C11_SelectOutsideIdle =>
    /\ reflowProfile = IF cyc.seqState = "IDLE"
                       THEN C10_Follows(cyc.startProfile)
                       ELSE cyc.startProfile
    /\ eeprom = reflowProfile
    /\ (cyc.startState \in {"PREHEAT", "SOAK", "REFLOW", "COOL", "BAKE"}
        /\ ~cyc.sampleFault) => cyc.seqState # "IDLE"
    /\ cyc.seqState = "IDLE" =>
         \/ cyc.startState \in {"COMPLETE", "TOO_HOT", "ERROR"}
         \/ cyc.sampleFault

\* a SELECT press consumed in SOAK, with no fault, has changed nothing
C11_Witness ==
  /\ cyc.press = "SWITCH_2"
  /\ cyc.startState = "SOAK"
  /\ ~cyc.sampleFault
  /\ reflowState = "SOAK"
  /\ reflowProfile = cyc.startProfile
  /\ eeprom = cyc.startProfile

(***************************************************************************)
(* SpecStartup: power-on with a hot oven.  Successive calls of loop() are  *)
(* 0, 101 or 1001 ms apart, the first at any of these from the end of      *)
(* setup(); START is pressed and released at will, the fault status is     *)
(* arbitrary.  The first sample is hot; later samples are hot or cold.  A  *)
(* behaviour has at most MaxStartupLoops calls of loop() and ends when a   *)
(* run is started.                                                         *)
(***************************************************************************)
MaxStartupLoops == 5
StartupDeltas == {0, 101, 1001}

\* the sensor readings: the oven is hot at power-on and may cool down later
StartupTemps == IF nextRead = SETUP_MILLIS THEN {100} ELSE IdleTemps

NextStartup ==
  /\ loops < MaxStartupLoops
  /\ reflowState \notin {"PREHEAT", "BAKE"}
  /\ \E d \in StartupDeltas :
       Loop(now + d, StartupTemps, Faults, {ReleasedPins, StartPins}, Outputs)
  /\ past' = PastNext
  /\ UNCHANGED <<offLoops, stateSince, hold, win, chosen>>

SpecStartup == Init /\ [][NextStartup]_vars

\* a run has been started
C12_Started == reflowState \in {"PREHEAT", "BAKE"}

\* the sensor has been sampled since power-on
C12_Sampled == nextRead > SETUP_MILLIS

\* C12 as stated: at power-on with the oven at 50 degrees or more, no
\* execution reaches PREHEAT or BAKE without having been in TOO_HOT and
\* having sampled a temperature below 50 degrees.
C12_StartupSafetyAsStated == C12_Started => past.tooHot /\ past.cold

\* C12 amended: at power-on with the oven at 50 degrees or more, no validated
\* press is consumed before the first sample; as long as every sample is at
\* 50 degrees or more and none reads a fault the state is TOO_HOT from the
\* first sample on; a run starts only with a sampled temperature below 50
\* degrees, and only after the state has been TOO_HOT or a fault has been
\* read with a sample (the controller then waits in ERROR, not in TOO_HOT).
C12_StartupSafety ==
  /\ cyc.press # "SWITCH_NONE" => C12_Sampled
  /\ (C12_Sampled /\ ~past.cold /\ ~past.faulted) => reflowState = "TOO_HOT"
  /\ C12_Started =>
       /\ past.cold
       /\ input < 50
       /\ past.tooHot \/ past.faulted

\* a run started after TOO_HOT and a cold sample, START held from power-on
C12_Witness ==
  /\ C12_Started
  /\ past.tooHot
  /\ past.cold
  /\ ~past.faulted
  /\ cyc.press = "SWITCH_1"

(***************************************************************************)
(* SpecRerun: one run after another.  loop() is called every RunDelta ms.  *)
(* The operator holds START in IDLE until the run starts and may press it  *)
(* again at any time during a run; the oven follows the stage the          *)
(* controller is in; the fault status is arbitrary.  A behaviour has at    *)
(* most MaxRerunLoops calls of loop().                                     *)
(***************************************************************************)
MaxRerunLoops == 16

\* the switch pins: START is kept down while under check and released once
\* taken; it is pressed in IDLE, and pressed or not during a run
RerunSwitches ==
  IF debounceState = "DEBOUNCE_RELEASE" THEN {ReleasedPins}
  ELSE IF debounceState = "DEBOUNCE_CHECK" \/ reflowState = "IDLE" THEN {StartPins}
  ELSE {ReleasedPins, StartPins}

\* the temperatures the sensor may report: the oven follows the stage, and
\* reaches the end of PREHEAT sooner or later
RerunTemps == IF reflowState = "PREHEAT" THEN {100, 150} ELSE OvenTemps

NextRerun ==
  /\ loops < MaxRerunLoops
  /\ Loop(now + RunDelta, RerunTemps, Faults, RerunSwitches, Outputs)
  /\ UNCHANGED <<offLoops, stateSince, hold, win, chosen, past>>

SpecRerun == Init /\ [][NextRerun]_vars

\* the gains of a stage, in thousandths: (100, 0.025, 20) for PREHEAT,
\* (300, 0.05, 250) for SOAK, (300, 0.05, 350) for REFLOW, (100, 0.07, 20)
\* for BAKE
C13_StageGains ==
  [PREHEAT |-> <<100000, 25, 20000>>, SOAK |-> <<300000, 50, 250000>>,
   REFLOW |-> <<300000, 50, 350000>>, BAKE |-> <<100000, 70, 20000>>]

\* C13: whenever the PID is computed (reflowStatus ON) in PREHEAT, SOAK,
\* REFLOW or BAKE, the gains held by the PID are those of that stage, on every
\* run since power-on.
C13_TuningsFollowStage ==
  (reflowStatus = "ON" /\ reflowState \in {"PREHEAT", "SOAK", "REFLOW", "BAKE"})
  => tunings = C13_StageGains[reflowState]

\* C14: every re-arm of the soak sub-timer in SOAK sets the new deadline to
\* the previous deadline plus one soak micro-period.
C14_SoakNoDrift ==
  [][(reflowState = "SOAK" /\ timerSoak' # timerSoak)
       => timerSoak' = timerSoak + soakMicroPeriod]_vars

\* C15 as stated: a cycle that starts in BAKE ends in BAKE with Setpoint 120
\* and reflowStatus ON, whatever the temperature and the clock, unless it
\* consumes a validated START press, which gives IDLE with reflowStatus OFF;
\* there is no other exit from BAKE.
C15_BakeHoldsAsStated ==
  cyc.startState = "BAKE" =>
    IF cyc.press = "SWITCH_1"
    THEN reflowState = "IDLE" /\ reflowStatus = "OFF"
    ELSE reflowState = "BAKE" /\ reflowStatus = "ON" /\ setpoint = 120

\* C15 amended: a cycle that starts in BAKE and samples no fault ends in BAKE
\* with Setpoint 120 and reflowStatus ON, whatever the temperature and the
\* clock, unless it consumes a validated START press, which gives IDLE with
\* reflowStatus OFF.  A fault read with a sample is the other exit: the cycle
\* ends with reflowStatus OFF, in ERROR or, when the second fault reading is
\* clear, in IDLE.
C15_BakeHolds ==
  cyc.startState = "BAKE" =>
    IF cyc.sampleFault
    THEN /\ reflowStatus = "OFF"
         /\ reflowState = IF AnyFault(fault) THEN "ERROR" ELSE "IDLE"
    ELSE IF cyc.press = "SWITCH_1"
    THEN reflowState = "IDLE" /\ reflowStatus = "OFF"
    ELSE reflowState = "BAKE" /\ reflowStatus = "ON" /\ setpoint = 120

\* the oven at 245 degrees, well over the bake setpoint, after ten calls of
\* loop() and more than 100 s in BAKE: the bake goes on
C15_Witness ==
  /\ cyc.startState = "BAKE"
  /\ reflowState = "BAKE"
  /\ reflowStatus = "ON"
  /\ setpoint = 120
  /\ input = 245
  /\ now - windowStartTime > 100000

\* a run is under way: it has started and reflowStatus has not become OFF
\* again (reflowStatus is still OFF at the end of the cycle that starts it)
C16_InRun == reflowState \in {"PREHEAT", "SOAK", "REFLOW", "COOL", "BAKE"}

\* the run parameters are those of Profile: 200/250/9000 for LEAD_FREE and
\* 180/224/10000 for LEADED in a run that began in PREHEAT, Profile BAKE in a
\* bake
C16_ParamsOfProfile ==
  IF reflowState = "BAKE" THEN reflowProfile = REFLOW_PROFILE_BAKE
  ELSE \/ /\ reflowProfile = REFLOW_PROFILE_LEADFREE
          /\ soakTemperatureMax = 200
          /\ reflowTemperatureMax = 250
          /\ soakMicroPeriod = 9000
       \/ /\ reflowProfile = REFLOW_PROFILE_LEADED
          /\ soakTemperatureMax = 180
          /\ reflowTemperatureMax = 224
          /\ soakMicroPeriod = 10000

\* C16: from the cycle that starts a run until reflowStatus next becomes OFF,
\* Profile, soakTemperatureMax, reflowTemperatureMax and soakMicroPeriod do
\* not change; the cycle that starts the run keeps the Profile it began with,
\* and in a run that began in PREHEAT the three parameters are the constants
\* of that Profile.
C16_ParamsFrozen ==
  [][/\ C16_InRun' => C16_ParamsOfProfile'
     /\ (reflowState = "IDLE" /\ C16_InRun') => reflowProfile' = reflowProfile
     /\ (C16_InRun /\ C16_InRun') =>
          UNCHANGED <<reflowProfile, soakTemperatureMax,
                      reflowTemperatureMax, soakMicroPeriod>>]_vars

\* a SELECT press consumed in REFLOW of a leaded run has changed nothing
C16_Witness ==
  /\ cyc.press = "SWITCH_2"
  /\ cyc.startState = "REFLOW"
  /\ C16_InRun
  /\ reflowProfile = REFLOW_PROFILE_LEADED
  /\ soakTemperatureMax = 180
  /\ reflowTemperatureMax = 224
  /\ soakMicroPeriod = 10000

(***************************************************************************)
(* SpecSetup: setup() itself.  A behaviour begins when setup() is entered,  *)
(* with any byte at PROFILE_TYPE_ADDRESS, runs setup(), and then makes at   *)
(* most MaxSetupLoops calls of loop() in which the operator may use SELECT. *)
(***************************************************************************)
MaxSetupLoops == 4
\* the values EEPROM.read() can return
StoredBytes == 0 .. 255

\* The state when setup() is entered: the globals as initialised, the clock
\* at 0, nothing loaded yet.
PowerUp ==
  /\ now = 0
  /\ nextRead = 0
  /\ input = 0
  /\ fault = 0
  /\ reflowState = "IDLE"
  /\ reflowStatus = "OFF"
  /\ reflowProfile = 0
  /\ eeprom \in StoredBytes
  /\ setpoint = 0
  /\ output = 0
  /\ tunings = PID_PREHEAT
  /\ soakTemperatureMax = 0
  /\ reflowTemperatureMax = 0
  /\ soakMicroPeriod = 0
  /\ timerSoak = 0
  /\ buzzerPeriod = 0
  /\ windowStartTime = 0
  /\ ssrPin = "LOW"
  /\ buzzerPin = "LOW"
  /\ debounceState = "DEBOUNCE_IDLE"
  /\ lastDebounceTime = 0
  /\ switchStatus = "SWITCH_NONE"
  /\ switchValue = "SWITCH_NONE"
  /\ switchMask = "SWITCH_NONE"
  /\ loops = 0
  /\ offLoops = 0
  /\ cyc = NoCycle
  /\ stateSince = NoChange
  /\ hold = NoHold
  /\ win = NoWindow
  /\ chosen = <<0>>
  /\ past = NoPast

\* setup(): the profile is loaded from the stored byte, the writes of setup()
\* reach the EEPROM, and nextRead takes the clock at the end of setup()
Setup ==
  /\ now = 0
  /\ LET value == eeprom
         writes == SetupWrites(value)
     IN /\ Commit([Cur EXCEPT !.reflowProfile = LoadProfile(value),
                              !.eeprom = IF writes = << >> THEN value
                                         ELSE writes[Len(writes)],
                              !.nextRead = SETUP_MILLIS], SETUP_MILLIS)
        /\ chosen' = <<LoadProfile(value)>>
  /\ UNCHANGED <<loops, offLoops, cyc, stateSince, hold, win, past>>

NextSetup ==
  \/ Setup
  \/ /\ now >= SETUP_MILLIS
     /\ loops < MaxSetupLoops
     /\ Loop(now + RunDelta, ColdTemps, NoFaults,
             Steady({ReleasedPins, SelectPins}), Outputs)
     /\ chosen' = ChosenNext
     /\ UNCHANGED <<offLoops, stateSince, hold, win, past>>

SpecSetup == PowerUp /\ [][NextSetup]_vars

\* setup() ends in one of the states the other specifications begin with
SetupEndsInPowerOn ==
  (now = SETUP_MILLIS /\ loops = 0) => \E value \in StoredValues : SetupDone(value)

\* C17: setup() with a stored value of 0, 1 or 2 makes Profile that value and
\* writes nothing; with any other stored value it makes Profile LEAD_FREE and
\* stores 0; so that when setup() returns the stored value equals Profile.
C17_ProfileLoad ==
  [][now = 0 =>
       /\ ValidProfile(eeprom) =>
            /\ reflowProfile' = eeprom
            /\ SetupWrites(eeprom) = << >>
            /\ eeprom' = eeprom
       /\ ~ValidProfile(eeprom) =>
            /\ reflowProfile' = REFLOW_PROFILE_LEADFREE
            /\ SetupWrites(eeprom) = <<0>>
            /\ eeprom' = 0
       /\ eeprom' = reflowProfile']_vars

\* setup() has run with the stored value 2: Profile is BAKE, the stored value
\* is still 2, and no call of loop() has been made yet
C17_Witness ==
  /\ now = SETUP_MILLIS
  /\ loops = 0
  /\ reflowProfile = REFLOW_PROFILE_BAKE
  /\ eeprom = 2

\* C18: switchStatus takes a value other than SWITCH_NONE only in a call of
\* loop() whose debounce machine goes from CHECK to RELEASE, and the value is
\* the switch under check; the state machine and the switch tests of the next
\* call see that value (cyc.press is what they saw), and that call ends with
\* switchStatus SWITCH_NONE, so the call after it sees no press: a validated
\* press is seen by one evaluation only and is never replaced before it is
\* seen.
C18_OneShot ==
  [][/\ switchStatus' # "SWITCH_NONE" =>
          /\ debounceState = "DEBOUNCE_CHECK"
          /\ debounceState' = "DEBOUNCE_RELEASE"
          /\ switchStatus' = switchMask
     /\ cyc'.press = switchStatus
     /\ switchStatus # "SWITCH_NONE" => switchStatus' = "SWITCH_NONE"]_vars

\* SELECT is still held after its validated press was seen by one evaluation:
\* the machine waits for the release and no press is pending
C18_Witness ==
  /\ cyc.press = "SWITCH_2"
  /\ switchStatus = "SWITCH_NONE"
  /\ debounceState = "DEBOUNCE_RELEASE"
  /\ switchValue = "SWITCH_2"

(***************************************************************************)
(* SpecBoth: the operator presses the two switches together or not at all. *)
(* loop() is called every RunDelta ms with arbitrary readings on either    *)
(* side of TEMPERATURE_ROOM and arbitrary faults.  A behaviour has at most *)
(* MaxBothLoops calls of loop().                                           *)
(***************************************************************************)
MaxBothLoops == 8
\* both switch pins pulled low
BothPins == <<"LOW", "LOW">>

NextBoth ==
  /\ loops < MaxBothLoops
  /\ Loop(now + RunDelta, IdleTemps, Faults, {ReleasedPins, BothPins}, Outputs)
  /\ chosen' = ChosenNext
  /\ UNCHANGED <<offLoops, stateSince, hold, win, past>>

SpecBoth == Init /\ [][NextBoth]_vars

\* C19: with the two switches only ever pressed together, every reading of
\* the switches (switchValue is the last one) is SWITCH_NONE, so no validated press is produced, no run is
\* started (and so none cancelled) and the profile is never changed.
C19_BothDegradeToNone ==
  /\ switchValue = "SWITCH_NONE"
  /\ switchStatus = "SWITCH_NONE"
  /\ reflowState \in {"IDLE", "TOO_HOT", "ERROR"}
  /\ reflowStatus = "OFF"
  /\ Len(chosen) = 1

\* reflowStatus is OFF and the heater LOW at the end of a call of loop() that
\* ends in TOO_HOT
C20_TooHotIsOff == reflowState = "TOO_HOT" => (reflowStatus = "OFF" /\ ssrPin = "LOW")

\* C20 as stated: a call of loop() that starts in IDLE with the last measured
\* temperature at or above 50 ends in TOO_HOT; the state goes from TOO_HOT to
\* IDLE only in a call whose measured temperature is below 50; reflowStatus
\* is OFF and the heater LOW at the end of every call that ends in TOO_HOT.
C20_OverTemperatureAsStated ==
  [][/\ (reflowState = "IDLE" /\ input >= 50) => reflowState' = "TOO_HOT"
     /\ (reflowState = "TOO_HOT" /\ reflowState' = "IDLE") => input' < 50
     /\ C20_TooHotIsOff']_vars

\* C20: a call of loop() that starts in IDLE and whose case IDLE sees a
\* temperature at or above 50 (the sample of this call if it takes one, the
\* last one otherwise) starts no run, whatever the validated press, and ends
\* in TOO_HOT unless a fault was read with the sample; a call that starts in
\* TOO_HOT and reads no fault with a sample ends in IDLE if the temperature
\* it sees is below 50 and in TOO_HOT otherwise, so that the state goes from
\* TOO_HOT to IDLE only with a temperature below 50 or after a fault read in
\* the same call; reflowStatus is OFF and the heater LOW at the end of every
\* call that ends in TOO_HOT.
C20_OverTemperature ==
  [][/\ (reflowState = "IDLE" /\ input' >= 50) =>
          /\ reflowState' \in {"TOO_HOT", "ERROR", "IDLE"}
          /\ reflowStatus' = "OFF"
          /\ ~cyc'.sampleFault => reflowState' = "TOO_HOT"
     /\ (reflowState = "TOO_HOT" /\ ~cyc'.sampleFault) =>
          reflowState' = IF input' < 50 THEN "IDLE" ELSE "TOO_HOT"
     /\ (reflowState = "TOO_HOT" /\ reflowState' = "IDLE") =>
          (input' < 50 \/ cyc'.sampleFault)
     /\ C20_TooHotIsOff']_vars

\* a call of loop() that started in IDLE with a validated START press and a
\* temperature of 50 or more has ended in TOO_HOT
C20_Witness ==
  /\ cyc.startState = "IDLE"
  /\ cyc.press = "SWITCH_1"
  /\ ~cyc.sampleFault
  /\ input >= 50
  /\ reflowState = "TOO_HOT"

\* the clock value of the call of loop() that starts the run in SpecDuty:
\* the third call after setup(), the calls being windowSize apart (START is
\* read by the first, validated by the second and accepted by the third)
DutyRunStart == SETUP_MILLIS + 3 * windowSize

\* C21: windowStartTime changes only in two ways.  A call of loop() that
\* starts a run from IDLE sets it to the clock value of that call.  A call
\* that ends with reflowStatus ON and finds more than windowSize elapsed since
\* windowStartTime adds exactly windowSize (2000) to it, once.  Hence during
\* a run windowStartTime is the clock value of the start of the run plus
\* windowSize times the number of windows shifted (win.done).
C21_WindowPhase ==
  /\ [][windowStartTime' # windowStartTime =>
          \/ /\ reflowState = "IDLE"
             /\ reflowState' \in {"PREHEAT", "BAKE"}
             /\ windowStartTime' = now'
          \/ /\ reflowStatus' = "ON"
             /\ now' - windowStartTime > 2000
             /\ windowStartTime' = windowStartTime + 2000]_vars
  /\ [](reflowState \in {"PREHEAT", "BAKE"} =>
          /\ windowStartTime = DutyRunStart + 2000 * win.done
          /\ (windowStartTime - DutyRunStart) % 2000 = 0)

\* the second window of a run has been shifted, two windows after the start
C21_Witness ==
  /\ reflowStatus = "ON"
  /\ win.done = 2
  /\ windowStartTime = DutyRunStart + 2 * windowSize
  /\ now > windowStartTime

\* C22: the call of loop() that accepts a validated START press in IDLE ends
\* in PREHEAT or BAKE with reflowStatus still OFF and the heater LOW, so the
\* press that started the run has not cancelled it; reflowStatus goes from
\* OFF to ON only in a call that starts in PREHEAT or BAKE, and the call that
\* follows the start turns it ON if and only if it reads no fault with a
\* sample.
C22_DeferredEnergising ==
  [][/\ (reflowState = "IDLE" /\ reflowState' \in {"PREHEAT", "BAKE"}) =>
          /\ cyc'.press = "SWITCH_1"
          /\ reflowStatus' = "OFF"
          /\ ssrPin' = "LOW"
     /\ (reflowStatus = "OFF" /\ reflowStatus' = "ON") =>
          /\ reflowState \in {"PREHEAT", "BAKE"}
          /\ reflowState' \in {"PREHEAT", "SOAK", "BAKE"}
          /\ ~cyc'.sampleFault
     /\ (reflowState \in {"PREHEAT", "BAKE"} /\ reflowStatus = "OFF") =>
          (reflowStatus' = "ON" <=> ~cyc'.sampleFault)]_vars

\* the call of loop() after the start of a run has turned the process on
C22_Witness ==
  /\ cyc.startState = "PREHEAT"
  /\ cyc.startStatus = "OFF"
  /\ ~cyc.sampleFault
  /\ reflowState = "PREHEAT"
  /\ reflowStatus = "ON"

(***************************************************************************)
(* SpecSoak: the soaking stage.  The operator starts a run and lets it go; *)
(* no fault is read.  Calls of loop() are RunDelta ms apart, and in SOAK   *)
(* either RunDelta (the soak timer has expired) or about half a soak       *)
(* period (it may not have); the oven is cold or hot during SOAK at will.  *)
(* A behaviour has at most MaxSoakLoops calls of loop().                   *)
(***************************************************************************)
MaxSoakLoops == 17
SoakDeltas == IF reflowState = "SOAK" THEN {4501, RunDelta} ELSE {RunDelta}
SoakTemps == IF reflowState = "SOAK" THEN {25, 245} ELSE OvenTemps

NextSoak ==
  /\ loops < MaxSoakLoops
  /\ \E d \in SoakDeltas :
       Loop(now + d, SoakTemps, NoFaults,
            IF reflowState = "IDLE" THEN Steady({ReleasedPins, StartPins})
            ELSE {ReleasedPins},
            Outputs)
  /\ UNCHANGED <<offLoops, stateSince, hold, win, chosen, past>>

SpecSoak == Init /\ [][NextSoak]_vars

\* the soak sub-timer expiries a run in SOAK has had: each one adds 5 to the
\* setpoint, which is 155 when SOAK is entered
C23_Expiries == (setpoint - 155) \div 5

\* C23: SOAK is entered with setpoint 155.  A call of loop() that starts in
\* SOAK, with no cancel and no fault, adds 5 to the setpoint when the soak
\* timer has expired and leaves it alone otherwise, whatever the temperature;
\* it leaves SOAK for REFLOW exactly on the expiry that finds the setpoint at
\* soakTemperatureMax, which is the 10th expiry with LEAD_FREE and the 6th
\* with LEADED.  At the end of every call in SOAK the setpoint is one of 155,
\* 160, ..., soakTemperatureMax.
C23_SoakPacedByTime ==
  /\ [][/\ (reflowState = "PREHEAT" /\ reflowState' = "SOAK") => setpoint' = 155
        /\ reflowState = "SOAK" =>
             /\ reflowState' \in {"SOAK", "REFLOW"}
             /\ now' <= timerSoak =>
                  (reflowState' = "SOAK" /\ setpoint' = setpoint)
             /\ (now' > timerSoak /\ setpoint < soakTemperatureMax) =>
                  (reflowState' = "SOAK" /\ setpoint' = setpoint + 5)
             /\ (now' > timerSoak /\ setpoint >= soakTemperatureMax) =>
                  reflowState' = "REFLOW"
             /\ reflowState' = "REFLOW" =>
                  C23_Expiries + 1 =
                    IF reflowProfile = REFLOW_PROFILE_LEADFREE THEN 10 ELSE 6]_vars
  /\ [](reflowState = "SOAK" =>
          /\ setpoint \in {155 + 5 * k : k \in 0 .. 9}
          /\ setpoint <= soakTemperatureMax)

\* a lead-free run has left SOAK for REFLOW after calls of loop() that found
\* the soak timer running
C23_Witness ==
  /\ cyc.startState = "SOAK"
  /\ reflowState = "REFLOW"
  /\ reflowProfile = REFLOW_PROFILE_LEADFREE
  /\ loops > 14

\* C24: at the end of every call of loop(), reflowStatus ON implies that
\* reflowState is PREHEAT, SOAK, REFLOW, COOL or BAKE; equivalently, when the
\* state is IDLE, COMPLETE, TOO_HOT or ERROR, reflowStatus is OFF, and the
\* heater is LOW.
C24_StatusStateConsistent ==
  /\ reflowStatus = "ON" =>
       reflowState \in {"PREHEAT", "SOAK", "REFLOW", "COOL", "BAKE"}
  /\ reflowState \in {"IDLE", "COMPLETE", "TOO_HOT", "ERROR"} =>
       (reflowStatus = "OFF" /\ ssrPin = "LOW")

\* a call of loop() that started in COOL with the process on has completed
\* the run
C24_Witness ==
  /\ cyc.startState = "COOL"
  /\ cyc.startStatus = "ON"
  /\ reflowState = "COMPLETE"
  /\ reflowStatus = "OFF"

\* C25: at the end of every call of loop() the buzzer output is HIGH only if
\* reflowState is COMPLETE, so that on every way out of COMPLETE (the buzzer
\* timer expiring, a fault read with a sample) the buzzer is LOW once the
\* state is no longer COMPLETE.
C25_BuzzerOnlyInComplete == buzzerPin = "HIGH" => reflowState = "COMPLETE"

\* the edges of the sequencer between the end of one call of loop() and the
\* end of the next
C26_Edges ==
  {<<"IDLE", "TOO_HOT">>, <<"IDLE", "PREHEAT">>, <<"IDLE", "BAKE">>,
   <<"PREHEAT", "SOAK">>, <<"SOAK", "REFLOW">>, <<"REFLOW", "COOL">>,
   <<"COOL", "COMPLETE">>, <<"COMPLETE", "IDLE">>, <<"TOO_HOT", "IDLE">>,
   <<"ERROR", "IDLE">>}
  \cup {<<st, "IDLE">> : st \in {"PREHEAT", "SOAK", "REFLOW", "COOL", "BAKE"}}
  \cup {<<st, "ERROR">> : st \in ReflowStates}

\* C26: from the end of one call of loop() to the end of the next, reflowState
\* stays the same or changes along one of the edges IDLE->TOO_HOT,
\* IDLE->PREHEAT, IDLE->BAKE, PREHEAT->SOAK, SOAK->REFLOW, REFLOW->COOL,
\* COOL->COMPLETE, COMPLETE->IDLE, TOO_HOT->IDLE, ERROR->IDLE, a run state
\* ->IDLE and any state->ERROR; so no stage is skipped and no earlier stage
\* is entered again without passing through IDLE.
C26_TransitionRelation ==
  [][reflowState' # reflowState => <<reflowState, reflowState'>> \in C26_Edges]_vars

\* a call of loop() that started in SOAK with no press pending has read a
\* fault with its sample and has ended in IDLE
C26_Witness ==
  /\ cyc.startState = "SOAK"
  /\ cyc.press = "SWITCH_NONE"
  /\ cyc.sampleFault
  /\ reflowState = "IDLE"

=============================================================================
